---- MODULE Spec2Model ----
(***************************************************************************)
(* A model of the two Lambda functions of the pipeline:                    *)
(*   lambda/processor/index.py  - the Ingestion Worker                     *)
(*   lambda/reporter/index.py   - the Report Generator                     *)
(* and of the stores they share (the DynamoDB metadata table, the          *)
(* processed-objects bucket, the reports bucket, the SNS topic).           *)
(*                                                                         *)
(* Every call of an external service is one atomic step; a failing call    *)
(* raises and has no effect on the store.  Ingestion invocations run       *)
(* concurrently with each other and with a Report Generator invocation.    *)
(***************************************************************************)
EXTENDS Integers, Sequences, FiniteSets, TLC

VARIABLES
    table,        \* metadata table: fileId -> item (DynamoDB, put_item / scan)
    processed,    \* PROCESSED_BUCKET: output key -> artifact
    now,          \* wall clock, in ticks of 1/TicksPerSec second
    nextId,       \* number of uuid4() values drawn so far, plus one
    pc,           \* per ingestion invocation: position in handler / process_s3_event
    batch,        \* per invocation: len(event['Records']), the envelopes of its batch
    envCount,     \* per invocation: envelopes of event['Records'] consumed so far
    remaining,    \* per invocation: embedded events of the current envelope not yet processed
    cur,          \* per invocation: the locals of the running process_s3_event
    successful,   \* per invocation: handler's local counter
    failed,       \* per invocation: handler's local counter
    result,       \* per invocation: the value process_s3_event returned
    response,     \* per invocation: what handler returned
    embedded,     \* history: embedded events found in the parseable envelopes so far
    malformed,    \* history: envelopes whose parsing raised
    calls,        \* history: calls of process_s3_event made so far
    failedSteps,  \* history: the steps of the current event that raised
    writers,      \* history: fileId -> the event processings that wrote it
    delivered,    \* history: object key -> number of well-formed events delivered for it
    wrote,        \* history: object key -> number of those events with a metadata write done
    swallowed,    \* history: the file ids whose FAILED write raised and was swallowed
    scheduled,    \* Report Generator: invocations the schedule triggers in all
    runs,         \* Report Generator: invocations begun so far
    scans,        \* Report Generator, history: table.scan calls answered in this invocation
    rpc,          \* Report Generator: position in its handler
    window,       \* Report Generator: end_time, start_timestamp and end_timestamp
    lastKey,      \* Report Generator: LastEvaluatedKey of the last scan response
    items,        \* Report Generator: the items accumulated by fetch_report_data
    report,       \* Report Generator: the report generate_report built
    rresponse,    \* Report Generator: what its handler returned, or that it raised
    reportsBucket,\* REPORTS_BUCKET: the keys of the objects put to it
    sns,          \* SNS topic: the notifications published, in order
    csv_content,  \* process_csv_data called on its own: its argument
    processed_data \* process_csv_data called on its own: what it returned

ingestVars == <<pc, batch, envCount, remaining, cur, successful, failed, result, response,
                embedded, malformed, calls, failedSteps>>
storeVars == <<table, processed, nextId, writers, delivered, wrote, swallowed>>
reportVars == <<scheduled, runs, scans, rpc, window, lastKey, items, report, rresponse, reportsBucket, sns>>
vars == <<table, processed, now, nextId, pc, batch, envCount, remaining, cur, successful,
          failed, result, response, embedded, malformed, calls, failedSteps,
          writers, delivered, wrote, swallowed, scheduled, runs, scans, rpc, window, lastKey, items, report, rresponse,
          reportsBucket, sns, csv_content, processed_data>>
csvVars == <<csv_content, processed_data>>

(***************************************************************************)
(* Bounds of the model.                                                    *)
(***************************************************************************)
NumWorkers == 2      \* concurrent ingestion invocations
MaxEnvelopes == 2    \* envelopes in the batches of all invocations together
MaxEvents == 2       \* work in all: embedded events of all envelopes and reports scheduled
MaxRows == 1         \* data rows of a source object
MaxTime == 2         \* the clock stops after this many ticks
MaxRecords == 3      \* items of the metadata table a report is generated from
TicksPerSec == 2     \* resolution of the clock
MaxData == 11        \* items of the data a report is computed from
ShortLen == 3        \* a longer data mixes only two kinds of item
MaxCsvRows == 2      \* lines after the header of a delimited input

Workers == 1..NumWorkers
Ids == 1..MaxEvents

(***************************************************************************)
(* Values.  An optional value (a Python None, a local that was never       *)
(* assigned, an attribute an item does not carry) is the empty tuple, and  *)
(* a present value v is <<v>>.                                             *)
(***************************************************************************)
None == <<>>
Unset == <<>>
Some(v) == <<v>>

ObjectKeys == { [dir |-> "a", stem |-> "x", ext |-> "csv"],
                [dir |-> "b", stem |-> "x", ext |-> "csv"] }
\* The size of the object under a key, as its upload notification reports it.
ObjectSize(k) == IF k.dir = "a" THEN 1 ELSE 2
\* An embedded event (s3_record): the object key and size it carries.  A
\* malformed one lacks a field that lines 66-68 read.
WellFormedEvents == { [key |-> Some(k), size |-> Some(ObjectSize(k))] : k \in ObjectKeys }
MalformedEvents == { [key |-> None, size |-> None] } \cup
                   { [key |-> Some(k), size |-> None] : k \in {x \in ObjectKeys : x.dir = "a"} }
Events == WellFormedEvents \cup MalformedEvents
\* str(e) of the exceptions the steps raise; "" is an exception without text.
ErrorMessages == {"", "ClientError"}

SecondsPerDay == 86400

\* The entries the report keeps of its errors and of its top files.
TopN == 10

\* 100 percent in hundredths of a percent: x / y * 100 with 2 decimals.
HundredPercent == 10000

\* int(datetime.timestamp()): whole epoch seconds of a clock reading.
EpochSeconds(t) == t \div TicksPerSec

(***************************************************************************)
(* lambda/processor/index.py                                               *)
(***************************************************************************)

\* update_metadata with record_count defaulting to 0 instead of None.
update_metadata_count_default(file_id, file_name, status, file_size, processed_key, record_count, error_message, t) ==
    [ fileId           |-> file_id,
      fileName         |-> file_name,
      processingStatus |-> status,
      uploadTimestamp  |-> EpochSeconds(t),
      fileSize         |-> file_size,
      processedKey     |-> IF processed_key # None THEN processed_key ELSE Unset,
      recordCount      |-> IF record_count # None THEN record_count ELSE Some(0),
      errorMessage     |-> IF error_message # None /\ error_message # Some("")
                           THEN error_message ELSE Unset ]

\* update_metadata, up to its put_item: the item it builds at clock reading t
\* (lastUpdated, which nothing reads, is left out).
update_metadata(file_id, file_name, status, file_size, processed_key, record_count, error_message, t) ==
    [ fileId           |-> file_id,
      fileName         |-> file_name,
      processingStatus |-> status,
      uploadTimestamp  |-> EpochSeconds(t),
      fileSize         |-> file_size,
      processedKey     |-> IF processed_key # None THEN processed_key ELSE Unset,
      recordCount      |-> IF record_count # None THEN record_count ELSE Unset,
      errorMessage     |-> IF error_message # None /\ error_message # Some("")
                           THEN error_message ELSE Unset ]

\* table.put_item(Item=item): a full-item replacement under the item's key.
put_item(item) == (item.fileId :> item) @@ table

\* generate_output_key: processed/<year>/<month>/<day>/<filename>_<HHMMSS>.json,
\* the date and the time of day being those of clock reading t.
generate_output_key(input_key, t) ==
    [ prefix   |-> "processed",
      day      |-> EpochSeconds(t) \div SecondsPerDay,
      filename |-> input_key.stem,
      hhmmss   |-> EpochSeconds(t) % SecondsPerDay,
      ext      |-> "json" ]

\* The file id drawn once, when the module is loaded, instead of per event.
uuid4_once == CHOOSE i \in Ids : \A j \in Ids : i <= j

\* str(uuid.uuid4()): an id no earlier call returned.
uuid4 == nextId

NoLocals == [ file_id |-> Unset, object_key |-> Unset, file_size |-> Unset,
              output_key |-> Unset, record_count |-> Unset, e |-> Unset ]

\* The event processing that invocation w is running: its identity in the history.
Proc(w) == <<w, calls[w]>>

RECURSIVE SumOver(_, _)
SumOver(f, S) == IF S = {} THEN 0
                 ELSE LET x == CHOOSE y \in S : TRUE IN f[x] + SumOver(f, S \ {x})

Init ==
    /\ table = << >>
    /\ processed = << >>
    /\ now = 0
    /\ nextId = 1
    /\ pc = [w \in Workers |-> "loop"]
    /\ batch \in [Workers -> 0..MaxEnvelopes]
    /\ SumOver(batch, Workers) <= MaxEnvelopes
    /\ scheduled \in {0, 1}
    /\ runs = 0
    /\ scans = 0
    /\ envCount = [w \in Workers |-> 0]
    /\ remaining = [w \in Workers |-> 0]
    /\ cur = [w \in Workers |-> NoLocals]
    /\ successful = [w \in Workers |-> 0]
    /\ failed = [w \in Workers |-> 0]
    /\ result = [w \in Workers |-> None]
    /\ response = [w \in Workers |-> None]
    /\ embedded = [w \in Workers |-> 0]
    /\ malformed = [w \in Workers |-> 0]
    /\ calls = [w \in Workers |-> 0]
    /\ failedSteps = [w \in Workers |-> {}]
    /\ writers = [i \in Ids |-> {}]
    /\ delivered = [k \in ObjectKeys |-> 0]
    /\ wrote = [k \in ObjectKeys |-> 0]
    /\ swallowed = {}
    /\ rpc = "idle"
    /\ window = None
    /\ lastKey = None
    /\ items = << >>
    /\ report = None
    /\ rresponse = None
    /\ reportsBucket = {}
    /\ sns = << >>
    /\ csv_content = None
    /\ processed_data = None

\* The clock advances.
Tick ==
    /\ now < MaxTime
    /\ now' = now + 1
    /\ UNCHANGED <<storeVars, ingestVars, reportVars, csvVars>>

\* handler without the try of line 35: a body that does not parse raises out
\* of the handler.
handler_envelope_uncaught(w) ==
    /\ pc[w] = "loop"
    /\ envCount[w] < batch[w]
    /\ envCount' = [envCount EXCEPT ![w] = @ + 1]
    /\ \/ /\ pc' = [pc EXCEPT ![w] = "raised"]
          /\ malformed' = [malformed EXCEPT ![w] = @ + 1]
          /\ UNCHANGED <<failed, remaining, embedded>>
       \/ /\ UNCHANGED <<pc, remaining, embedded, failed, malformed>>
       \/ \E n \in 0..(MaxEvents - SumOver(embedded, Workers) - scheduled) :
             /\ remaining' = [remaining EXCEPT ![w] = n]
             /\ embedded' = [embedded EXCEPT ![w] = @ + n]
             /\ pc' = [pc EXCEPT ![w] = IF n = 0 THEN "loop" ELSE "call"]
             /\ UNCHANGED <<failed, malformed>>
    /\ UNCHANGED <<batch, cur, successful, result, response, calls, failedSteps>>
    /\ UNCHANGED <<storeVars, now, reportVars, csvVars>>

\* handler, lines 34-40 and 47-50: the next envelope of the batch.  Its body
\* does not parse (json.loads or record['body'] raises: counted as failed), or
\* it parses to a message without 'Records', or to one with n embedded events.
handler_envelope(w) ==
    /\ pc[w] = "loop"
    /\ envCount[w] < batch[w]
    /\ envCount' = [envCount EXCEPT ![w] = @ + 1]
    /\ \/ /\ failed' = [failed EXCEPT ![w] = @ + 1]
          /\ malformed' = [malformed EXCEPT ![w] = @ + 1]
          /\ UNCHANGED <<pc, remaining, embedded>>
       \/ /\ UNCHANGED <<pc, remaining, embedded, failed, malformed>>
       \/ \E n \in 0..(MaxEvents - SumOver(embedded, Workers) - scheduled) :
             /\ remaining' = [remaining EXCEPT ![w] = n]
             /\ embedded' = [embedded EXCEPT ![w] = @ + n]
             /\ pc' = [pc EXCEPT ![w] = IF n = 0 THEN "loop" ELSE "call"]
             /\ UNCHANGED <<failed, malformed>>
    /\ UNCHANGED <<batch, cur, successful, result, response, calls, failedSteps>>
    /\ UNCHANGED <<storeVars, now, reportVars, csvVars>>

\* handler, lines 52-58: the batch is exhausted.
handler_return(w) ==
    /\ pc[w] = "loop"
    /\ envCount[w] = batch[w]
    /\ pc' = [pc EXCEPT ![w] = "done"]
    /\ response' = [response EXCEPT ![w] =
                      Some([statusCode |-> 200, successful |-> successful[w],
                            failed |-> failed[w]])]
    /\ UNCHANGED <<batch, envCount, remaining, cur, successful, failed, result, embedded,
                   malformed, calls, failedSteps>>
    /\ UNCHANGED <<storeVars, now, reportVars, csvVars>>

\* process_s3_event, lines 64-81, called at line 42 for the next embedded event:
\* the fields are read (a missing one raises), a fresh file id is drawn and the
\* PROCESSING item is put.
process_s3_event_begin(w) ==
    /\ pc[w] = "call"
    /\ calls' = [calls EXCEPT ![w] = @ + 1]
    /\ result' = [result EXCEPT ![w] = None]
    /\ \E ev \in Events :
         \/ /\ ev \in MalformedEvents
            /\ cur' = [cur EXCEPT ![w] = [NoLocals EXCEPT !.object_key = ev.key,
                                                          !.e = Some("extract")]]
            /\ failedSteps' = [failedSteps EXCEPT ![w] = {"extract"}]
            /\ pc' = [pc EXCEPT ![w] = "except"]
            /\ UNCHANGED storeVars
         \/ /\ ev \in WellFormedEvents
            /\ nextId' = nextId + 1
            /\ delivered' = [delivered EXCEPT ![ev.key[1]] = @ + 1]
            /\ UNCHANGED <<processed, swallowed>>
            /\ \/ /\ table' = put_item(update_metadata(uuid4, ev.key[1], "PROCESSING",
                                                       ev.size[1], None, None, None, now))
                  /\ writers' = [writers EXCEPT ![uuid4] = @ \cup {<<w, calls[w] + 1>>}]
                  /\ wrote' = [wrote EXCEPT ![ev.key[1]] = @ + 1]
                  /\ cur' = [cur EXCEPT ![w] = [NoLocals EXCEPT !.file_id = Some(uuid4),
                                     !.object_key = ev.key, !.file_size = ev.size]]
                  /\ failedSteps' = [failedSteps EXCEPT ![w] = {}]
                  /\ pc' = [pc EXCEPT ![w] = "get"]
               \/ /\ cur' = [cur EXCEPT ![w] = [NoLocals EXCEPT !.file_id = Some(uuid4),
                                     !.object_key = ev.key, !.file_size = ev.size,
                                     !.e = Some("processing_write")]]
                  /\ failedSteps' = [failedSteps EXCEPT ![w] = {"processing_write"}]
                  /\ pc' = [pc EXCEPT ![w] = "except"]
                  /\ UNCHANGED <<table, writers, wrote>>
    /\ UNCHANGED <<batch, envCount, remaining, successful, failed, response, embedded, malformed>>
    /\ UNCHANGED <<now, reportVars, csvVars>>

\* process_s3_event, lines 83-91: the object is fetched and decoded, its rows
\* are parsed by process_csv_data (n data rows give n records) and the output
\* key is generated; the fetch or the decoding/parsing may raise.
process_s3_event_get(w) ==
    /\ pc[w] = "get"
    /\ \/ \E n \in 0..MaxRows :
            /\ cur' = [cur EXCEPT ![w].record_count = Some(n),
                                  ![w].output_key = Some(generate_output_key(cur[w].object_key[1], now))]
            /\ pc' = [pc EXCEPT ![w] = "put"]
            /\ UNCHANGED failedSteps
       \/ \E step \in {"fetch", "parse"} :
            /\ cur' = [cur EXCEPT ![w].e = Some(step)]
            /\ failedSteps' = [failedSteps EXCEPT ![w] = @ \cup {step}]
            /\ pc' = [pc EXCEPT ![w] = "except"]
    /\ UNCHANGED <<batch, envCount, remaining, successful, failed, result, response, embedded,
                   malformed, calls>>
    /\ UNCHANGED <<storeVars, now, reportVars, csvVars>>

\* process_s3_event, lines 93-99: the artifact is put to PROCESSED_BUCKET.
process_s3_event_put(w) ==
    /\ pc[w] = "put"
    /\ \/ /\ processed' = (cur[w].output_key[1] :>
                             [source |-> cur[w].object_key[1], rows |-> cur[w].record_count[1]])
                          @@ processed
          /\ pc' = [pc EXCEPT ![w] = "completed"]
          /\ UNCHANGED <<cur, failedSteps>>
       \/ /\ cur' = [cur EXCEPT ![w].e = Some("artifact_write")]
          /\ failedSteps' = [failedSteps EXCEPT ![w] = @ \cup {"artifact_write"}]
          /\ pc' = [pc EXCEPT ![w] = "except"]
          /\ UNCHANGED processed
    /\ UNCHANGED <<batch, envCount, remaining, successful, failed, result, response, embedded,
                   malformed, calls>>
    /\ UNCHANGED <<table, nextId, writers, delivered, wrote, swallowed, now, reportVars, csvVars>>

\* process_s3_event returning True whether the COMPLETED update raised or not.
process_s3_event_completed_unchecked(w) ==
    /\ pc[w] = "completed"
    /\ \/ /\ table' = put_item(update_metadata(cur[w].file_id[1], cur[w].object_key[1],
                                   "COMPLETED", cur[w].file_size[1], cur[w].output_key,
                                   cur[w].record_count, None, now))
          /\ writers' = [writers EXCEPT ![cur[w].file_id[1]] = @ \cup {Proc(w)}]
          /\ UNCHANGED <<cur, failedSteps>>
       \/ /\ cur' = [cur EXCEPT ![w].e = Some("completed_write")]
          /\ failedSteps' = [failedSteps EXCEPT ![w] = @ \cup {"completed_write"}]
          /\ UNCHANGED <<table, writers>>
    /\ result' = [result EXCEPT ![w] = Some(TRUE)]
    /\ pc' = [pc EXCEPT ![w] = "tally"]
    /\ UNCHANGED <<batch, envCount, remaining, successful, failed, response, embedded,
                   malformed, calls>>
    /\ UNCHANGED <<processed, nextId, delivered, wrote, swallowed, now, reportVars, csvVars>>

\* process_s3_event, lines 101-112: the COMPLETED item is put and True returned.
process_s3_event_completed(w) ==
    /\ pc[w] = "completed"
    /\ \/ /\ table' = put_item(update_metadata(cur[w].file_id[1], cur[w].object_key[1],
                                   "COMPLETED", cur[w].file_size[1], cur[w].output_key,
                                   cur[w].record_count, None, now))
          /\ writers' = [writers EXCEPT ![cur[w].file_id[1]] = @ \cup {Proc(w)}]
          /\ result' = [result EXCEPT ![w] = Some(TRUE)]
          /\ pc' = [pc EXCEPT ![w] = "tally"]
          /\ UNCHANGED <<cur, failedSteps>>
       \/ /\ cur' = [cur EXCEPT ![w].e = Some("completed_write")]
          /\ failedSteps' = [failedSteps EXCEPT ![w] = @ \cup {"completed_write"}]
          /\ pc' = [pc EXCEPT ![w] = "except"]
          /\ UNCHANGED <<table, writers, result>>
    /\ UNCHANGED <<batch, envCount, remaining, successful, failed, response, embedded,
                   malformed, calls>>
    /\ UNCHANGED <<processed, nextId, delivered, wrote, swallowed, now, reportVars, csvVars>>

\* The exception handler returning False without the FAILED update.
process_s3_event_except_nowrite(w) ==
    /\ pc[w] = "except"
    /\ result' = [result EXCEPT ![w] = Some(FALSE)]
    /\ pc' = [pc EXCEPT ![w] = "tally"]
    /\ UNCHANGED <<batch, envCount, remaining, cur, successful, failed, response, embedded,
                   malformed, calls, failedSteps>>
    /\ UNCHANGED <<storeVars, now, reportVars, csvVars>>

\* The exception handler without the inner try of line 119: a failure of the
\* FAILED update leaves process_s3_event, is caught at line 47 and ends the
\* envelope.
process_s3_event_except_unswallowed(w) ==
    /\ pc[w] = "except"
    /\ \/ /\ cur[w].file_id # Unset
          /\ \E msg \in ErrorMessages :
               table' = put_item(update_metadata(cur[w].file_id[1], cur[w].object_key[1],
                                   "FAILED", cur[w].file_size[1], None, None,
                                   Some(msg), now))
          /\ writers' = [writers EXCEPT ![cur[w].file_id[1]] = @ \cup {Proc(w)}]
          /\ wrote' = IF "processing_write" \in failedSteps[w]
                      THEN [wrote EXCEPT ![cur[w].object_key[1]] = @ + 1]
                      ELSE wrote
          /\ result' = [result EXCEPT ![w] = Some(FALSE)]
          /\ pc' = [pc EXCEPT ![w] = "tally"]
          /\ UNCHANGED <<failedSteps, swallowed, failed, remaining, cur>>
       \/ /\ failed' = [failed EXCEPT ![w] = @ + 1]
          /\ remaining' = [remaining EXCEPT ![w] = 0]
          /\ pc' = [pc EXCEPT ![w] = "loop"]
          /\ cur' = [cur EXCEPT ![w] = NoLocals]
          /\ failedSteps' = [failedSteps EXCEPT ![w] = {}]
          /\ UNCHANGED <<table, writers, wrote, swallowed, result>>
    /\ UNCHANGED <<batch, envCount, successful, response, embedded, malformed, calls>>
    /\ UNCHANGED <<processed, nextId, delivered, now, reportVars, csvVars>>

\* The exception handler deleting the item of the failed event instead of
\* marking it FAILED.
process_s3_event_except_delete(w) ==
    /\ pc[w] = "except"
    /\ table' = [i \in DOMAIN table \ (IF cur[w].file_id = Unset THEN {} ELSE {cur[w].file_id[1]})
                    |-> table[i]]
    /\ result' = [result EXCEPT ![w] = Some(FALSE)]
    /\ pc' = [pc EXCEPT ![w] = "tally"]
    /\ UNCHANGED <<batch, envCount, remaining, cur, successful, failed, response, embedded,
                   malformed, calls, failedSteps>>
    /\ UNCHANGED <<processed, nextId, writers, delivered, wrote, swallowed, now, reportVars, csvVars>>

\* The exception handler passing the record count of the failed event to the
\* FAILED update.
process_s3_event_except_keeps_count(w) ==
    /\ pc[w] = "except"
    /\ \/ /\ cur[w].file_id = Unset
          /\ failedSteps' = [failedSteps EXCEPT ![w] = @ \cup {"failed_write"}]
          /\ UNCHANGED <<table, writers, wrote, swallowed>>
       \/ /\ cur[w].file_id # Unset
          /\ \E msg \in ErrorMessages :
               table' = put_item(update_metadata(cur[w].file_id[1], cur[w].object_key[1],
                                   "FAILED", cur[w].file_size[1], None, cur[w].record_count,
                                   Some(msg), now))
          /\ writers' = [writers EXCEPT ![cur[w].file_id[1]] = @ \cup {Proc(w)}]
          /\ wrote' = IF "processing_write" \in failedSteps[w]
                      THEN [wrote EXCEPT ![cur[w].object_key[1]] = @ + 1]
                      ELSE wrote
          /\ UNCHANGED <<failedSteps, swallowed>>
       \/ /\ cur[w].file_id # Unset
          /\ failedSteps' = [failedSteps EXCEPT ![w] = @ \cup {"failed_write"}]
          /\ swallowed' = swallowed \cup {cur[w].file_id[1]}
          /\ UNCHANGED <<table, writers, wrote>>
    /\ result' = [result EXCEPT ![w] = Some(FALSE)]
    /\ pc' = [pc EXCEPT ![w] = "tally"]
    /\ UNCHANGED <<batch, envCount, remaining, cur, successful, failed, response, embedded,
                   malformed, calls>>
    /\ UNCHANGED <<processed, nextId, delivered, now, reportVars, csvVars>>

\* The exception handler of a process_s3_event that assigns file_id before its
\* try: the FAILED update of an event whose fields could not be read is made,
\* under that id.
process_s3_event_except_default_id(w) ==
    /\ pc[w] = "except"
    /\ \/ /\ cur[w].file_id = Unset
          /\ table' = put_item(update_metadata(uuid4, cur[w].object_key, "FAILED",
                                               cur[w].file_size, None, None,
                                               Some("KeyError"), now))
          /\ nextId' = nextId + 1
          /\ writers' = [writers EXCEPT ![uuid4] = @ \cup {Proc(w)}]
          /\ UNCHANGED <<failedSteps, wrote, swallowed>>
       \/ /\ cur[w].file_id # Unset
          /\ \E msg \in ErrorMessages :
               table' = put_item(update_metadata(cur[w].file_id[1], cur[w].object_key[1],
                                   "FAILED", cur[w].file_size[1], None, None,
                                   Some(msg), now))
          /\ writers' = [writers EXCEPT ![cur[w].file_id[1]] = @ \cup {Proc(w)}]
          /\ wrote' = IF "processing_write" \in failedSteps[w]
                      THEN [wrote EXCEPT ![cur[w].object_key[1]] = @ + 1]
                      ELSE wrote
          /\ UNCHANGED <<failedSteps, swallowed, nextId>>
       \/ /\ cur[w].file_id # Unset
          /\ failedSteps' = [failedSteps EXCEPT ![w] = @ \cup {"failed_write"}]
          /\ swallowed' = swallowed \cup {cur[w].file_id[1]}
          /\ UNCHANGED <<table, writers, wrote, nextId>>
    /\ result' = [result EXCEPT ![w] = Some(FALSE)]
    /\ pc' = [pc EXCEPT ![w] = "tally"]
    /\ UNCHANGED <<batch, envCount, remaining, cur, successful, failed, response, embedded,
                   malformed, calls>>
    /\ UNCHANGED <<processed, delivered, now, reportVars, csvVars>>

\* process_s3_event, lines 114-130: the exception handler; e is the step that
\* raised and str(e) one of ErrorMessages.  Building the
\* arguments of the FAILED update reads file_id first: when it was never
\* assigned that raises, inside the inner try, and is swallowed like a failure
\* of the put itself.  False is returned in every case.
process_s3_event_except(w) ==
    /\ pc[w] = "except"
    /\ \/ /\ cur[w].file_id = Unset
          /\ failedSteps' = [failedSteps EXCEPT ![w] = @ \cup {"failed_write"}]
          /\ UNCHANGED <<table, writers, wrote, swallowed>>
       \/ /\ cur[w].file_id # Unset
          /\ \E msg \in ErrorMessages :
               table' = put_item(update_metadata(cur[w].file_id[1], cur[w].object_key[1],
                                   "FAILED", cur[w].file_size[1], None, None,
                                   Some(msg), now))
          /\ writers' = [writers EXCEPT ![cur[w].file_id[1]] = @ \cup {Proc(w)}]
          /\ wrote' = IF "processing_write" \in failedSteps[w]
                      THEN [wrote EXCEPT ![cur[w].object_key[1]] = @ + 1]
                      ELSE wrote
          /\ UNCHANGED <<failedSteps, swallowed>>
       \/ /\ cur[w].file_id # Unset
          /\ failedSteps' = [failedSteps EXCEPT ![w] = @ \cup {"failed_write"}]
          /\ swallowed' = swallowed \cup {cur[w].file_id[1]}
          /\ UNCHANGED <<table, writers, wrote>>
    /\ result' = [result EXCEPT ![w] = Some(FALSE)]
    /\ pc' = [pc EXCEPT ![w] = "tally"]
    /\ UNCHANGED <<batch, envCount, remaining, cur, successful, failed, response, embedded,
                   malformed, calls>>
    /\ UNCHANGED <<processed, nextId, delivered, now, reportVars, csvVars>>

\* The tally with line 46 outside the else: every event is counted as failed,
\* a successful one as successful too.
handler_tally_no_else(w) ==
    /\ pc[w] = "tally"
    /\ successful' = [successful EXCEPT ![w] = IF result[w] = Some(TRUE) THEN @ + 1 ELSE @]
    /\ failed' = [failed EXCEPT ![w] = @ + 1]
    /\ remaining' = [remaining EXCEPT ![w] = @ - 1]
    /\ pc' = [pc EXCEPT ![w] = IF remaining[w] = 1 THEN "loop" ELSE "call"]
    /\ cur' = [cur EXCEPT ![w] = NoLocals]
    /\ result' = [result EXCEPT ![w] = None]
    /\ failedSteps' = [failedSteps EXCEPT ![w] = {}]
    /\ UNCHANGED <<batch, envCount, response, embedded, malformed, calls>>
    /\ UNCHANGED <<storeVars, now, reportVars, csvVars>>

\* handler, lines 41-46: the result of process_s3_event is tallied and the
\* loop over the envelope's events goes on (the locals of the call that
\* returned are kept until here).
handler_tally(w) ==
    /\ pc[w] = "tally"
    /\ IF result[w] = Some(TRUE)
       THEN successful' = [successful EXCEPT ![w] = @ + 1] /\ UNCHANGED failed
       ELSE failed' = [failed EXCEPT ![w] = @ + 1] /\ UNCHANGED successful
    /\ remaining' = [remaining EXCEPT ![w] = @ - 1]
    /\ pc' = [pc EXCEPT ![w] = IF remaining[w] = 1 THEN "loop" ELSE "call"]
    /\ cur' = [cur EXCEPT ![w] = NoLocals]
    /\ result' = [result EXCEPT ![w] = None]
    /\ failedSteps' = [failedSteps EXCEPT ![w] = {}]
    /\ UNCHANGED <<batch, envCount, response, embedded, malformed, calls>>
    /\ UNCHANGED <<storeVars, now, reportVars, csvVars>>

(***************************************************************************)
(* lambda/reporter/index.py                                                *)
(***************************************************************************)

RECURSIVE SortedSeq(_)
\* The ids of S in the order a scan walks them.
SortedSeq(S) == IF S = {} THEN << >>
                ELSE LET m == CHOOSE x \in S : \A y \in S : x <= y
                     IN <<m>> \o SortedSeq(S \ {m})

\* Attr('uploadTimestamp').between(start_timestamp, end_timestamp), both inclusive.
between(item, start_timestamp, end_timestamp) ==
    start_timestamp <= item.uploadTimestamp /\ item.uploadTimestamp <= end_timestamp

\* table.scan(FilterExpression, ExclusiveStartKey=start): one page.  The store
\* evaluates the next k items after start, returns those the filter keeps and,
\* when it stopped at its page limit (more = TRUE), the last key it evaluated.
scan(start, k, more, w) ==
    LET todo == SortedSeq({i \in DOMAIN table : start = None \/ i > start[1]})
        page == SubSeq(todo, 1, k)
        rows == [j \in 1..Len(page) |-> table[page[j]]]
    IN [ Items |-> SelectSeq(rows, LAMBDA it : between(it, w.start_timestamp, w.end_timestamp)),
         LastEvaluatedKey |-> IF more THEN Some(page[k]) ELSE None ]

\* The pages a scan from start may return: any page size of at least one item,
\* a LastEvaluatedKey whenever items are left and possibly when the page limit
\* fell on the last item; an exhausted table gives one empty last page.
ScanResponses(start, w) ==
    LET left == Cardinality({i \in DOMAIN table : start = None \/ i > start[1]})
    IN IF left = 0 THEN { scan(start, 0, FALSE, w) }
       ELSE { scan(start, k, TRUE, w) : k \in 1..left } \cup { scan(start, left, FALSE, w) }

\* save_report_to_s3, line 175:
\* daily-reports/<year>/<month>/<day>/report_<YYYYMMDD_HHMMSS>.json of timestamp t.
report_key(t) ==
    [ prefix |-> "daily-reports",
      day    |-> EpochSeconds(t) \div SecondsPerDay,
      stamp  |-> EpochSeconds(t),
      ext    |-> "json" ]

\* save_report_to_s3, line 192: report_key.replace('.json', '.html').
html_key(key) == [key EXCEPT !.ext = "html"]

\* The number of items of data whose processingStatus is status.
CountStatus(data, status) ==
    Cardinality({j \in 1..Len(data) : data[j].processingStatus = status})

\* item.get('recordCount') is truthy: the item carries a recordCount and it
\* is not 0.
HasRecordCount(item) == item.recordCount # Unset /\ item.recordCount[1] # 0

\* item.get('errorMessage') is truthy: the item carries a non-empty errorMessage.
HasErrorMessage(item) == item.errorMessage # Unset /\ item.errorMessage # Some("")

RECURSIVE total_records(_)
\* generate_report, line 109: the sum of recordCount over the items whose
\* recordCount is truthy.
total_records(data) ==
    IF data = << >> THEN 0
    ELSE (IF HasRecordCount(Head(data)) THEN Head(data).recordCount[1] ELSE 0)
         + total_records(Tail(data))

\* round(x, 2) of x = num / den * 100, in hundredths: the nearest hundredth
\* with truncation instead of rounding.
round2_truncated(num, den) == (num * HundredPercent) \div den

\* round(x, 2) of x = num / den * 100, in hundredths: the nearest hundredth,
\* a tie going to the even one.
round2(num, den) ==
    LET q == (num * HundredPercent) \div den
        r == (num * HundredPercent) % den
    IN IF 2 * r > den THEN q + 1
       ELSE IF 2 * r = den THEN q + (q % 2)
       ELSE q

\* generate_report, lines 114 and 154: success_rate_percent, in hundredths of
\* a percent.
success_rate(completed_files, total_files) ==
    IF total_files > 0 THEN round2(completed_files, total_files) ELSE 0

\* The first n elements of seq, all of them when it has fewer: seq[:n].
Slice(seq, n) == SubSeq(seq, 1, IF Len(seq) < n THEN Len(seq) ELSE n)

RECURSIVE by_timestamp(_)
\* The entries by timestamp ascending.
by_timestamp(entries) ==
    IF entries = << >> THEN << >>
    ELSE LET m == CHOOSE j \in 1..Len(entries) :
                    /\ \A k \in 1..Len(entries) : entries[j].timestamp <= entries[k].timestamp
                    /\ \A k \in 1..(j - 1) : entries[j].timestamp < entries[k].timestamp
         IN <<entries[m]>> \o
            by_timestamp(SubSeq(entries, 1, m - 1) \o SubSeq(entries, m + 1, Len(entries)))

\* The error entries ordered by upload time instead of scan order.
errors_by_time(data) ==
    LET failing == SelectSeq(data, LAMBDA it : it.processingStatus = "FAILED"
                                               /\ HasErrorMessage(it))
    IN by_timestamp([ j \in 1..Len(failing) |-> [ fileName  |-> failing[j].fileName,
                                                  error     |-> failing[j].errorMessage[1],
                                                  timestamp |-> failing[j].uploadTimestamp ] ])

\* generate_report, lines 132-139: the entry of every FAILED item with a
\* truthy errorMessage, in the order of data.
errors(data) ==
    LET failing == SelectSeq(data, LAMBDA it : it.processingStatus = "FAILED"
                                               /\ HasErrorMessage(it))
    IN [ j \in 1..Len(failing) |-> [ fileName  |-> failing[j].fileName,
                                     error     |-> failing[j].errorMessage[1],
                                     timestamp |-> failing[j].uploadTimestamp ] ]

RECURSIVE sorted_reverse(_)
\* sorted(entries, key=recordCount, reverse=True): the entries by recordCount
\* descending, equal ones in the order they had.
sorted_reverse(entries) ==
    IF entries = << >> THEN << >>
    ELSE LET m == CHOOSE j \in 1..Len(entries) :
                    /\ \A k \in 1..Len(entries) : entries[k].recordCount <= entries[j].recordCount
                    /\ \A k \in 1..(j - 1) : entries[k].recordCount < entries[j].recordCount
         IN <<entries[m]>> \o
            sorted_reverse(SubSeq(entries, 1, m - 1) \o SubSeq(entries, m + 1, Len(entries)))

\* generate_report, lines 160-165: the entries of the items whose recordCount
\* is truthy, sorted, the first TopN of them.
top_files(data) ==
    LET counted == SelectSeq(data, HasRecordCount)
        entries == [ j \in 1..Len(counted) |-> [ fileName    |-> counted[j].fileName,
                                                 recordCount |-> counted[j].recordCount[1] ] ]
    IN Slice(sorted_reverse(entries), TopN)

\* generate_report: the summary (lines 104-114 and 149-155, without the data
\* size), the errors (line 159) and the top files (lines 160-165); the report
\* metadata and the hourly breakdown are left out.
generate_report(data) ==
    [ total_files_processed   |-> Len(data),
      successful_files        |-> CountStatus(data, "COMPLETED"),
      failed_files            |-> CountStatus(data, "FAILED"),
      in_progress_files       |-> CountStatus(data, "PROCESSING"),
      success_rate_percent    |-> success_rate(CountStatus(data, "COMPLETED"), Len(data)),
      total_records_processed |-> total_records(data),
      errors                  |-> Slice(errors(data), TopN),
      top_files               |-> top_files(data) ]

\* handler, lines 32-35, and fetch_report_data, lines 78-79: the schedule
\* fires, the clock is read and the window computed.
reporter_handler_begin ==
    /\ rpc = "idle"
    /\ runs < scheduled
    /\ runs' = runs + 1
    /\ window' = Some([ end_time        |-> now,
                        start_timestamp |-> EpochSeconds(now) - SecondsPerDay,
                        end_timestamp   |-> EpochSeconds(now) ])
    /\ rpc' = "fetch"
    /\ UNCHANGED <<scheduled, scans, lastKey, items, report, rresponse, reportsBucket, sns>>
    /\ UNCHANGED <<storeVars, ingestVars, now, csvVars>>

\* fetch_report_data without the loop of line 89: it returns after one page.
AfterScan_first_page_only(resp, all) ==
    /\ items' = all
    /\ lastKey' = resp.LastEvaluatedKey
    /\ scans' = scans + 1
    /\ rpc' = "save_json"
    /\ report' = Some(generate_report(all))

\* What follows a scan response: another scan while it carries a
\* LastEvaluatedKey (line 89), else fetch_report_data returns and
\* generate_report builds the report (lines 38-41).
AfterScan(resp, all) ==
    /\ items' = all
    /\ lastKey' = resp.LastEvaluatedKey
    /\ scans' = scans + 1
    /\ IF resp.LastEvaluatedKey # None
       THEN rpc' = "more" /\ UNCHANGED report
       ELSE rpc' = "save_json" /\ report' = Some(generate_report(all))

\* fetch_report_data, lines 82-86: the first scan; a failing scan raises.
fetch_report_data_first ==
    /\ rpc = "fetch"
    /\ \/ \E resp \in ScanResponses(None, window[1]) : AfterScan(resp, resp.Items)
       \/ rpc' = "except" /\ UNCHANGED <<items, lastKey, report, scans>>
    /\ UNCHANGED <<scheduled, runs, window, rresponse, reportsBucket, sns>>
    /\ UNCHANGED <<storeVars, ingestVars, now, csvVars>>

\* fetch_report_data, lines 89-94: a scan from the LastEvaluatedKey, its items
\* appended.
fetch_report_data_more ==
    /\ rpc = "more"
    /\ \/ \E resp \in ScanResponses(lastKey, window[1]) : AfterScan(resp, items \o resp.Items)
       \/ rpc' = "except" /\ UNCHANGED <<items, lastKey, report, scans>>
    /\ UNCHANGED <<scheduled, runs, window, rresponse, reportsBucket, sns>>
    /\ UNCHANGED <<storeVars, ingestVars, now, csvVars>>

\* save_report_to_s3, lines 175-186: the JSON report is put.
save_report_to_s3_json ==
    /\ rpc = "save_json"
    /\ \/ /\ reportsBucket' = reportsBucket \cup {report_key(window[1].end_time)}
          /\ rpc' = "save_html"
       \/ rpc' = "except" /\ UNCHANGED reportsBucket
    /\ UNCHANGED <<scheduled, runs, scans, window, lastKey, items, report, rresponse, sns>>
    /\ UNCHANGED <<storeVars, ingestVars, now, csvVars>>

\* save_report_to_s3 returning the key without having put the HTML report.
save_report_to_s3_html_unsaved ==
    /\ rpc = "save_html"
    /\ rpc' = "notify"
    /\ UNCHANGED <<scheduled, runs, scans, window, lastKey, items, report, rresponse, sns,
                   reportsBucket>>
    /\ UNCHANGED <<storeVars, ingestVars, now, csvVars>>

\* save_report_to_s3, lines 190-201: the HTML report is put.
save_report_to_s3_html ==
    /\ rpc = "save_html"
    /\ \/ /\ reportsBucket' = reportsBucket \cup {html_key(report_key(window[1].end_time))}
          /\ rpc' = "notify"
       \/ rpc' = "except" /\ UNCHANGED reportsBucket
    /\ UNCHANGED <<scheduled, runs, scans, window, lastKey, items, report, rresponse, sns>>
    /\ UNCHANGED <<storeVars, ingestVars, now, csvVars>>

\* The locals of an invocation that ended.
ReporterEnds ==
    /\ rpc' = "idle"
    /\ window' = None
    /\ lastKey' = None
    /\ items' = << >>
    /\ report' = None
    /\ scans' = 0

\* send_notification, lines 283-322, and handler, lines 49-57: the summary is
\* published with the links to both reports, and 200 returned.
send_notification ==
    /\ rpc = "notify"
    /\ \/ /\ sns' = Append(sns, [ kind    |-> "summary",
                                   summary |-> report[1],
                                   links   |-> << report_key(window[1].end_time),
                                                  html_key(report_key(window[1].end_time)) >> ])
          /\ rresponse' = Some([statusCode |-> 200])
          /\ ReporterEnds
       \/ /\ rpc' = "except"
          /\ UNCHANGED <<sns, rresponse, window, lastKey, items, report, scans>>
    /\ UNCHANGED <<scheduled, runs, reportsBucket>>
    /\ UNCHANGED <<storeVars, ingestVars, now, csvVars>>

\* handler, lines 59-72, and send_error_notification: the error notification
\* is published and a response with statusCode 500 returned; when that publish
\* fails too, the exception leaves the handler.
reporter_handler_except ==
    /\ rpc = "except"
    /\ \/ /\ sns' = Append(sns, [kind |-> "error"])
          /\ rresponse' = Some([statusCode |-> 500])
       \/ /\ rresponse' = Some([raised |-> TRUE])
          /\ UNCHANGED sns
    /\ ReporterEnds
    /\ UNCHANGED <<scheduled, runs, reportsBucket>>
    /\ UNCHANGED <<storeVars, ingestVars, now, csvVars>>

Report ==
    \/ reporter_handler_begin
    \/ fetch_report_data_first
    \/ fetch_report_data_more
    \/ save_report_to_s3_json
    \/ save_report_to_s3_html
    \/ send_notification
    \/ reporter_handler_except

Ingest(w) ==
    \/ handler_envelope(w)
    \/ handler_return(w)
    \/ process_s3_event_begin(w)
    \/ process_s3_event_get(w)
    \/ process_s3_event_put(w)
    \/ process_s3_event_completed(w)
    \/ process_s3_event_except(w)
    \/ handler_tally(w)

Next ==
    \/ Tick
    \/ \E w \in Workers : Ingest(w)
    \/ Report

Spec == Init /\ [][Next]_vars

(***************************************************************************)
(* The Report Generator alone, on a metadata table that does not change    *)
(* while it runs and at a frozen clock.  The table holds items as the      *)
(* Ingestion Worker writes them, uploaded at either end of the window,     *)
(* just before it and just after it.                                       *)
(***************************************************************************)

\* Clock readings of the report invocation: on a whole second and past one.
ReportClock == { TicksPerSec * 2 * SecondsPerDay, TicksPerSec * 2 * SecondsPerDay + 1 }

\* Clock readings of the writes that made the items of the table.
WriteClock == { TicksPerSec * s : s \in { SecondsPerDay - 1, SecondsPerDay,
                                         2 * SecondsPerDay, 2 * SecondsPerDay + 1 } }

\* The items the Ingestion Worker can have left under file id i.
StoredItems(i) ==
    LET k == CHOOSE x \in ObjectKeys : x.dir = "a" IN
    UNION { { update_metadata(i, k, "PROCESSING", ObjectSize(k), None, None, None, t),
              update_metadata(i, k, "COMPLETED", ObjectSize(k),
                              Some(generate_output_key(k, t)), Some(MaxRows), None, t),
              update_metadata(i, k, "FAILED", ObjectSize(k), None, None,
                              Some("ClientError"), t) } : t \in WriteClock }

InitReport ==
    /\ \E n \in 0..MaxRecords :
          /\ table \in [1..n -> UNION { StoredItems(i) : i \in 1..n }]
          /\ \A i \in 1..n : table[i].fileId = i
          /\ nextId = n + 1
    /\ now \in ReportClock
    /\ processed = << >>
    /\ pc = [w \in Workers |-> "done"]
    /\ response = [w \in Workers |->
                     Some([statusCode |-> 200, successful |-> 0, failed |-> 0])]
    /\ batch = [w \in Workers |-> 0]
    /\ envCount = [w \in Workers |-> 0]
    /\ remaining = [w \in Workers |-> 0]
    /\ cur = [w \in Workers |-> NoLocals]
    /\ successful = [w \in Workers |-> 0]
    /\ failed = [w \in Workers |-> 0]
    /\ result = [w \in Workers |-> None]
    /\ embedded = [w \in Workers |-> 0]
    /\ malformed = [w \in Workers |-> 0]
    /\ calls = [w \in Workers |-> 0]
    /\ failedSteps = [w \in Workers |-> {}]
    /\ writers = [i \in Ids |-> {}]
    /\ delivered = [k \in ObjectKeys |-> 0]
    /\ wrote = [k \in ObjectKeys |-> 0]
    /\ swallowed = {}
    /\ scheduled = 1
    /\ runs = 0
    /\ scans = 0
    /\ rpc = "idle"
    /\ window = None
    /\ lastKey = None
    /\ items = << >>
    /\ report = None
    /\ rresponse = None
    /\ reportsBucket = {}
    /\ sns = << >>
    /\ csv_content = None
    /\ processed_data = None

NextReport == Report

SpecReport == InitReport /\ [][NextReport]_vars

(***************************************************************************)
(* generate_report alone, on every data of up to MaxData items: each item  *)
(* is one the Ingestion Worker writes, the j-th under file id j and file   *)
(* name DataKey(j), the later in the data the earlier uploaded.            *)
(***************************************************************************)

\* The state of the stores and of the ingestion invocations when nothing has
\* run and nothing is to run.
Quiescent ==
    /\ processed = << >>
    /\ pc = [w \in Workers |-> "done"]
    /\ response = [w \in Workers |->
                     Some([statusCode |-> 200, successful |-> 0, failed |-> 0])]
    /\ batch = [w \in Workers |-> 0]
    /\ envCount = [w \in Workers |-> 0]
    /\ remaining = [w \in Workers |-> 0]
    /\ cur = [w \in Workers |-> NoLocals]
    /\ successful = [w \in Workers |-> 0]
    /\ failed = [w \in Workers |-> 0]
    /\ result = [w \in Workers |-> None]
    /\ embedded = [w \in Workers |-> 0]
    /\ malformed = [w \in Workers |-> 0]
    /\ calls = [w \in Workers |-> 0]
    /\ failedSteps = [w \in Workers |-> {}]
    /\ writers = [i \in Ids |-> {}]
    /\ delivered = [k \in ObjectKeys |-> 0]
    /\ wrote = [k \in ObjectKeys |-> 0]
    /\ swallowed = {}
    /\ scans = 0
    /\ window = None
    /\ lastKey = None
    /\ rresponse = None
    /\ reportsBucket = {}
    /\ sns = << >>

\* The kinds of item: PROCESSING; COMPLETED with 0, 1 or 2 records; FAILED
\* with an error message and FAILED with an empty one.
Kinds == {"P", "C0", "C1", "C2", "F", "F0"}

\* The object key of the j-th item of the data.
DataKey(j) == [dir |-> "d", stem |-> j, ext |-> "csv"]

\* The item of kind kd the Ingestion Worker leaves under file id j at clock
\* reading t.
DataItem(j, kd, t) ==
    CASE kd = "P"  -> update_metadata(j, DataKey(j), "PROCESSING", j, None, None, None, t)
      [] kd = "C0" -> update_metadata(j, DataKey(j), "COMPLETED", j,
                                      Some(generate_output_key(DataKey(j), t)), Some(0), None, t)
      [] kd = "C1" -> update_metadata(j, DataKey(j), "COMPLETED", j,
                                      Some(generate_output_key(DataKey(j), t)), Some(1), None, t)
      [] kd = "C2" -> update_metadata(j, DataKey(j), "COMPLETED", j,
                                      Some(generate_output_key(DataKey(j), t)), Some(2), None, t)
      [] kd = "F"  -> update_metadata(j, DataKey(j), "FAILED", j, None, None,
                                      Some("ClientError"), t)
      [] kd = "F0" -> update_metadata(j, DataKey(j), "FAILED", j, None, None, Some(""), t)

\* The data of n items whose kinds are those of ks.
Data(n, ks) == [ j \in 1..n |-> DataItem(j, ks[j], TicksPerSec * (n - j)) ]

InitGenerate ==
    /\ \E n \in 0..MaxData :
         \E k1, k2 \in Kinds :
            \E ks \in [1..n -> IF n > ShortLen THEN {k1, k2} ELSE Kinds] :
               items = Data(n, ks)
    /\ table = << >>
    /\ nextId = 1
    /\ now = TicksPerSec * MaxData
    /\ scheduled = 1
    /\ runs = 1
    /\ rpc = "generate"
    /\ report = None
    /\ csv_content = None
    /\ processed_data = None
    /\ Quiescent

\* handler, line 41: generate_report is called with the data fetched.
generate_report_call ==
    /\ rpc = "generate"
    /\ report' = Some(generate_report(items))
    /\ rpc' = "generated"
    /\ UNCHANGED <<scheduled, runs, scans, window, lastKey, items, rresponse, reportsBucket, sns>>
    /\ UNCHANGED <<storeVars, ingestVars, now, csvVars>>

NextGenerate == generate_report_call

SpecGenerate == InitGenerate /\ [][NextGenerate]_vars

(***************************************************************************)
(* process_csv_data alone, on delimited inputs of a header and up to       *)
(* MaxCsvRows lines.  An input is its header (the column names) and its    *)
(* lines after the header, each the sequence of its fields; a line without *)
(* fields is a blank line.  A value of a record is <<s>> for the string s, *)
(* <<>> for None, <<"at", t>> for the timestamp of clock reading t and     *)
(* <<"uuid", n>> for the n-th row id drawn.                                *)
(***************************************************************************)

\* The headers: one column; two columns, one name padded; two names that are
\* the same once trimmed; a column named like a field process_csv_data adds.
Headers == { <<"a">>, <<"a", " b ">>, <<"a", " a ">>, <<"a", "row_id">> }

\* The fields of a line: a plain one and a padded one.
Fields == { "v", " v " }

\* str.strip() on the strings of the inputs.
strip(str) == CASE str = " v " -> "v"
                [] str = " a " -> "a"
                [] str = " b " -> "b"
                [] OTHER -> str

\* The lines a header of h columns may be followed by: from no field (a blank
\* line) to one field more than the header has columns.
Lines(h) == UNION { [1..n -> Fields] : n \in 0..(h + 1) }

\* The inputs.
CsvContents ==
    UNION { UNION { { [header |-> hd, rows |-> rs] : rs \in [1..m -> Lines(Len(hd))] }
                    : m \in 0..MaxCsvRows } : hd \in Headers }

\* process_csv_data, lines 152-159, for a row csv.DictReader yields, given that
\* the row is not longer than the header: the dictionary of the trimmed names
\* (of two columns with one name the later one stays) with the trimmed fields,
\* None for a column the row has no field for, then processed_at and row_id.
cleaned_row(fieldnames, row, t, n) ==
    LET names == { strip(fieldnames[j]) : j \in 1..Len(fieldnames) }
        last(k) == CHOOSE j \in 1..Len(fieldnames) :
                     /\ strip(fieldnames[j]) = k
                     /\ \A i \in (j + 1)..Len(fieldnames) : strip(fieldnames[i]) # k
    IN [ k \in names \cup {"processed_at", "row_id"} |->
           IF k = "row_id" THEN <<"uuid", n>>
           ELSE IF k = "processed_at" THEN <<"at", t>>
           ELSE IF last(k) <= Len(row) THEN Some(strip(row[last(k)]))
           ELSE None ]

RECURSIVE csv_loop(_, _, _, _)
\* process_csv_data, lines 146-166: the loop over the rows of csv.DictReader,
\* which passes over blank lines.  A row longer than the header carries its
\* surplus fields under the key None, k.strip() raises on that key and the row
\* is counted invalid.
csv_loop(fieldnames, rows, t, acc) ==
    IF rows = << >> THEN acc
    ELSE LET row == Head(rows) IN
         IF Len(row) = 0 THEN csv_loop(fieldnames, Tail(rows), t, acc)
         ELSE IF Len(row) > Len(fieldnames)
         THEN csv_loop(fieldnames, Tail(rows), t,
                       [acc EXCEPT !.summary.total_records = @ + 1,
                                   !.summary.invalid_records = @ + 1])
         ELSE csv_loop(fieldnames, Tail(rows), t,
                       [acc EXCEPT !.summary.total_records = @ + 1,
                                   !.summary.valid_records = @ + 1,
                                   !.records = Append(@, cleaned_row(fieldnames, row, t,
                                                                     Len(acc.records) + 1))])

\* process_csv_data at clock reading t.
process_csv_data(content, t) ==
    csv_loop(content.header, content.rows, t,
             [ summary |-> [total_records |-> 0, valid_records |-> 0, invalid_records |-> 0],
               records |-> << >> ])

InitCsv ==
    /\ table = << >>
    /\ nextId = 1
    /\ now = 0
    /\ scheduled = 0
    /\ runs = 0
    /\ rpc = "idle"
    /\ items = << >>
    /\ report = None
    /\ Quiescent
    /\ \E content \in CsvContents : csv_content = Some(content)
    /\ processed_data = None

\* process_s3_event, line 88: process_csv_data is called.
process_csv_data_call ==
    /\ csv_content # None
    /\ processed_data = None
    /\ processed_data' = Some(process_csv_data(csv_content[1], now))
    /\ UNCHANGED <<csv_content, storeVars, ingestVars, reportVars, now>>

NextCsv == process_csv_data_call

SpecCsv == InitCsv /\ [][NextCsv]_vars

(***************************************************************************)
(* The claims.                                                             *)
(***************************************************************************)

\* The status of the item under file id i, "absent" when there is none.
StatusOf(t, i) == IF i \in DOMAIN t THEN t[i].processingStatus ELSE "absent"

\* Invocation w is inside process_s3_event, between its first statement and
\* its return.
Running(w) == pc[w] \in {"get", "put", "completed", "except"}

\* Invocation w has returned from process_s3_event and not yet tallied.
Returned(w) == pc[w] = "tally"

\* The items of the table that invocation w wrote.
WrittenBy(w) == { i \in DOMAIN table : \E p \in writers[i] : p[1] = w }

\* C1: for every record id the only status changes ever made are
\* absent -> PROCESSING, PROCESSING -> COMPLETED and PROCESSING -> FAILED: no
\* record is first written as COMPLETED or FAILED, none is removed, and a
\* COMPLETED or FAILED record never changes status again.
C1_OnlyLifecycleTransitions ==
    [][ \A i \in Ids :
          StatusOf(table', i) # StatusOf(table, i) =>
            <<StatusOf(table, i), StatusOf(table', i)>> \in
              { <<"absent", "PROCESSING">>, <<"PROCESSING", "COMPLETED">>,
                <<"PROCESSING", "FAILED">> } ]_vars

\* C2 as stated: when process_s3_event has returned, a record it wrote as
\* PROCESSING is COMPLETED or FAILED, and an invocation that has ended has
\* left no record in PROCESSING.
C2_NeverLeftProcessing ==
    \A w \in Workers :
      /\ Returned(w) /\ cur[w].file_id # Unset /\ cur[w].file_id[1] \in DOMAIN table
           => table[cur[w].file_id[1]].processingStatus \in {"COMPLETED", "FAILED"}
      /\ pc[w] = "done"
           => \A i \in WrittenBy(w) : table[i].processingStatus # "PROCESSING"

\* C2 as amended: a record is in PROCESSING only while the process_s3_event
\* that wrote it is still running, or when its FAILED write raised and was
\* swallowed; a returned process_s3_event whose FAILED write did not raise has
\* left its record COMPLETED (it returned True) or FAILED (it returned False).
C2_ProcessingOnlyWhileRunningOrSwallowed ==
    /\ \A i \in DOMAIN table :
         table[i].processingStatus = "PROCESSING" =>
           \/ \E w \in Workers : Running(w) /\ cur[w].file_id = Some(i)
           \/ i \in swallowed
    /\ \A w \in Workers :
         Returned(w) /\ cur[w].file_id # Unset /\ "failed_write" \notin failedSteps[w] =>
           /\ cur[w].file_id[1] \in DOMAIN table
           /\ table[cur[w].file_id[1]].processingStatus =
                (IF result[w] = Some(TRUE) THEN "COMPLETED" ELSE "FAILED")

\* C2 witness: every invocation has ended; one event failed at a later step
\* and its record was turned FAILED, another's FAILED write was swallowed and
\* its record is left in PROCESSING.
C2_Witness ==
    /\ \A w \in Workers : pc[w] = "done"
    /\ \E i \in DOMAIN table : table[i].processingStatus = "FAILED"
    /\ \E i \in DOMAIN table : table[i].processingStatus = "PROCESSING" /\ i \in swallowed

\* C3: every write to a record id that exists stores the uploadTimestamp the
\* record was created with.
C3_UploadTimestampNeverMutated ==
    [][ \A i \in DOMAIN table :
          i \in DOMAIN table' => table'[i].uploadTimestamp = table[i].uploadTimestamp ]_vars

\* The COMPLETED items of the table that invocation w wrote.
CompletedBy(w) == { i \in WrittenBy(w) : table[i].processingStatus = "COMPLETED" }

\* C4: process_s3_event is run for every embedded event of every parseable
\* envelope, whatever failed before (when the handler is between envelopes or
\* has returned, it has made one call per embedded event found so far); an
\* event none of whose steps raised returns True with its record COMPLETED,
\* and the successful count is the number of those events.
C4_FailuresAreIsolated ==
    \A w \in Workers :
      /\ pc[w] \in {"loop", "done"} => calls[w] = embedded[w]
      /\ Returned(w) /\ failedSteps[w] = {} =>
           /\ result[w] = Some(TRUE)
           /\ StatusOf(table, cur[w].file_id[1]) = "COMPLETED"
      /\ ~Returned(w) /\ ~Running(w) => successful[w] = Cardinality(CompletedBy(w))

\* C4 witness: an event whose steps all succeeded has returned True after an
\* envelope and a sibling event of the same invocation had failed.
C4_Witness ==
    \E w \in Workers :
      /\ Returned(w) /\ failedSteps[w] = {} /\ result[w] = Some(TRUE)
      /\ malformed[w] = 1 /\ failed[w] = 2

\* C5: the ingestion handler never raises, and when it ends it has returned
\* statusCode 200 with its successful and failed counts.
C5_HandlerAlwaysReturns200 ==
    \A w \in Workers :
      /\ pc[w] \in {"loop", "call", "get", "put", "completed", "except", "tally", "done"}
      /\ pc[w] = "done" =>
           response[w] = Some([statusCode |-> 200, successful |-> successful[w],
                               failed |-> failed[w]])
      /\ pc[w] # "done" => response[w] = None

\* C5 witness: a handler has returned after a malformed envelope and an event
\* whose FAILED write raised.
C5_Witness ==
    \E w \in Workers :
      /\ pc[w] = "done" /\ malformed[w] = 1 /\ swallowed # {}
      /\ response[w] = Some([statusCode |-> 200, successful |-> 0, failed |-> 2])

\* C6, the counts: between events, successful + failed is the number of
\* embedded events processed plus the number of malformed envelopes, and at
\* the end that is every embedded event and every malformed envelope; an
\* event whose object could not be fetched has returned False.
C6_CountsAddUp ==
    \A w \in Workers :
      /\ successful[w] + failed[w] =
           malformed[w] + calls[w] - (IF Running(w) \/ Returned(w) THEN 1 ELSE 0)
      /\ pc[w] = "done" => successful[w] + failed[w] = embedded[w] + malformed[w]
      /\ Returned(w) /\ "fetch" \in failedSteps[w] => result[w] = Some(FALSE)

\* C6, the tally: the step that tallies a returned event adds exactly 1 to
\* one of the two counts, and for an event whose object could not be fetched
\* it adds 1 to failed and 0 to successful.
C6_TallyStep ==
    \A w \in Workers :
      Returned(w) /\ ~Returned(w)' =>
        /\ successful'[w] + failed'[w] = successful[w] + failed[w] + 1
        /\ "fetch" \in failedSteps[w] =>
             failed'[w] = failed[w] + 1 /\ successful'[w] = successful[w]

\* C6: every embedded event and every malformed envelope is counted exactly
\* once.
C6_EveryEventCountedOnce == [] C6_CountsAddUp /\ [][C6_TallyStep]_vars

\* C6 witness: a handler has returned after a malformed envelope, an event
\* that succeeded and an event that failed.
C6_Witness ==
    \E w \in Workers :
      pc[w] = "done" /\ malformed[w] = 1 /\ embedded[w] = 2
        /\ successful[w] = 1 /\ failed[w] = 2

\* C7: an item carries processedKey or recordCount only if it is COMPLETED and
\* errorMessage only if it is FAILED; a PROCESSING item carries none of them.
C7_OptionalFieldsMatchStatus ==
    \A i \in DOMAIN table :
      /\ table[i].processedKey # Unset => table[i].processingStatus = "COMPLETED"
      /\ table[i].recordCount # Unset => table[i].processingStatus = "COMPLETED"
      /\ table[i].errorMessage # Unset => table[i].processingStatus = "FAILED"

\* C7 witness: the table holds a COMPLETED item with processedKey and
\* recordCount and a FAILED item with errorMessage.
C7_Witness ==
    \E i, j \in DOMAIN table :
      /\ table[i].processingStatus = "COMPLETED"
      /\ table[i].processedKey # Unset /\ table[i].recordCount # Unset
      /\ table[j].processingStatus = "FAILED" /\ table[j].errorMessage # Unset

\* The items of the table whose fileName is k.
RecordsOf(k) == { i \in DOMAIN table : table[i].fileName = k }

\* C8 as stated: when every invocation has ended, the k events delivered for
\* an object key have left k records with that fileName.
C8_OneRecordPerDelivery ==
    (\A w \in Workers : pc[w] = "done") =>
       \A k \in ObjectKeys : Cardinality(RecordsOf(k)) = delivered[k]

\* C8 as amended: no record is written by two event processings, and the k
\* events delivered for an object key that had a metadata write succeed have
\* left k records with that fileName, under pairwise distinct file ids.
C8_NoSharedRecord ==
    /\ \A i \in Ids : Cardinality(writers[i]) <= 1
    /\ \A i \in DOMAIN table : Cardinality(writers[i]) = 1
    /\ \A k \in ObjectKeys : Cardinality(RecordsOf(k)) = wrote[k]

\* C8 witness: two invocations running at the same time have each written a
\* record for the same object key.
C8_Witness ==
    \E i, j \in DOMAIN table, k \in ObjectKeys :
      /\ i # j /\ table[i].fileName = k /\ table[j].fileName = k
      /\ \E w, v \in Workers :
           /\ w # v /\ Running(w) /\ Running(v)
           /\ cur[w].file_id = Some(i) /\ cur[v].file_id = Some(j)

\* C9: no step removes a record id from the metadata table, and a step of the
\* Report Generator leaves the table as it is.
C9_TableNeverShrinks ==
    [][ /\ DOMAIN table \subseteq DOMAIN table'
        /\ reportVars' # reportVars => table' = table ]_vars

\* C9 witness: a report invocation has ended while an ingestion invocation
\* that had written a record before it began is still running.
C9_Witness ==
    /\ runs = 1 /\ rpc = "idle" /\ Len(sns) = 1
    /\ \E w \in Workers : Running(w) /\ cur[w].file_id # Unset
                            /\ cur[w].file_id[1] \in DOMAIN table

\* The items of the table whose uploadTimestamp lies in the 24 hours that end
\* at the clock reading t, in whole epoch seconds, both ends included.
InWindow(t) ==
    { i \in DOMAIN table :
        /\ EpochSeconds(t) - SecondsPerDay <= table[i].uploadTimestamp
        /\ table[i].uploadTimestamp <= EpochSeconds(t) }

\* C10: on a table that does not change while it is scanned, fetch_report_data
\* scans again for every LastEvaluatedKey it is given and returns only after a
\* page without one; what it returns is exactly the items of the window, each
\* once, however the store pages them, and the report's total is their number.
C10_FetchFollowsEveryPage ==
    /\ lastKey # None => rpc \in {"more", "except"}
    /\ rpc = "more" => lastKey # None
    /\ rpc \in {"save_json", "save_html", "notify"} =>
         /\ Len(items) = Cardinality(InWindow(now))
         /\ { items[j] : j \in 1..Len(items) } = { table[i] : i \in InWindow(now) }
         /\ report[1].total_files_processed = Cardinality(InWindow(now))

\* C10 witness: fetch_report_data has returned the two items of the window
\* from two pages of a table that holds a third item outside the window.
C10_Witness ==
    /\ rpc = "save_json" /\ scans = 2
    /\ Len(items) = 2 /\ Cardinality(DOMAIN table) = 3
    /\ report[1].total_files_processed = 2

\* The data the report was computed from holds n items.
Generated == rpc = "generated"

\* C11: the success rate of the report is the hundredth of a percent nearest
\* to completed / total * 100 (no hundredth is nearer), where completed is the
\* number of COMPLETED items and total the number of all items; it is 0 for
\* an empty data; and 3 COMPLETED with 2 FAILED items give 60.00.
C11_SuccessRate ==
    Generated =>
      LET total == Len(items)
          completed == Cardinality({ j \in 1..total : items[j].processingStatus = "COMPLETED" })
          rate == report[1].success_rate_percent
      IN /\ total = 0 => rate = 0
         /\ total > 0 =>
              /\ 2 * (rate * total - completed * 100 * 100) <= total
              /\ 2 * (completed * 100 * 100 - rate * total) <= total
         /\ total = 5 /\ completed = 3 => rate = 6000

\* C11 witness: the report of 3 COMPLETED and 2 FAILED items has a success
\* rate of 60.00.
C11_Witness ==
    /\ Generated /\ Len(items) = 5
    /\ report[1].successful_files = 3 /\ report[1].failed_files = 2
    /\ report[1].success_rate_percent = 6000

\* All the items of the table, in scan order.
TableSeq ==
    LET ids == SortedSeq(DOMAIN table) IN [ j \in 1..Len(ids) |-> table[ids[j]] ]

\* The sum of recordCount over the COMPLETED items of data that carry one.
CompletedRecords(data) ==
    LET idx == { j \in 1..Len(data) : data[j].processingStatus = "COMPLETED"
                                      /\ data[j].recordCount # Unset }
    IN SumOver([ j \in idx |-> data[j].recordCount[1] ], idx)

\* C12: the total record count of a report is the sum of recordCount over the
\* COMPLETED items it was computed from that carry a recordCount, and the
\* same holds of the total computed from all the items of any table the
\* Ingestion Worker has produced.
C12_TotalRecordsOfCompleted ==
    /\ report # None => report[1].total_records_processed = CompletedRecords(items)
    /\ total_records(TableSeq) = CompletedRecords(TableSeq)

\* C12 witness: a report was computed from a COMPLETED item with 1 record
\* while the table holds that item, and its total is 1.
C12_Witness ==
    /\ report # None /\ Len(items) = 1
    /\ items[1].processingStatus = "COMPLETED" /\ items[1].recordCount = Some(1)
    /\ report[1].total_records_processed = 1

\* The top-files entries of the items of data that carry a recordCount, in
\* the order of data.
CountedEntries(data) ==
    LET counted == SelectSeq(data, LAMBDA it : it.recordCount # Unset)
    IN [ j \in 1..Len(counted) |-> [ fileName    |-> counted[j].fileName,
                                     recordCount |-> counted[j].recordCount[1] ] ]

\* C13: the top files of a report are the first 10 of the entries of all the
\* items that carry a recordCount, one of 0 included, by recordCount
\* descending with equal ones in scan order; all of them when fewer than 10.
C13_TopFilesOfAllCounted ==
    Generated => report[1].top_files = Slice(sorted_reverse(CountedEntries(items)), TopN)

\* The positions in data of the FAILED items that carry an error message.
FailedWithDetail(data) ==
    { j \in 1..Len(data) : data[j].processingStatus = "FAILED" /\ data[j].errorMessage # Unset }

\* C14: the failure list of a report has min(10, f) entries, f being the
\* number of FAILED items with an error message, and its k-th entry is the
\* name, message and timestamp of the k-th such item in scan order, whatever
\* the upload times are.
C14_FailureListInScanOrder ==
    Generated =>
      LET F == FailedWithDetail(items)
          errs == report[1].errors
      IN /\ Len(errs) = (IF Cardinality(F) < 10 THEN Cardinality(F) ELSE 10)
         /\ \A k \in 1..Len(errs) :
              \E j \in F :
                 /\ Cardinality({ i \in F : i <= j }) = k
                 /\ errs[k] = [ fileName  |-> items[j].fileName,
                                error     |-> items[j].errorMessage[1],
                                timestamp |-> items[j].uploadTimestamp ]

\* C14 witness: of 11 FAILED items with an error message, each uploaded
\* before the one scanned before it, the failure list holds the first 10
\* scanned, the latest uploaded first.
C14_Witness ==
    /\ Generated /\ Cardinality(FailedWithDetail(items)) = 11
    /\ Len(report[1].errors) = 10
    /\ report[1].errors[1].fileName = items[1].fileName
    /\ report[1].errors[1].timestamp > report[1].errors[10].timestamp

\* C14, second witness: FAILED items without an error message and items of
\* another status lie between those the failure list holds.
C14_WitnessMixed ==
    /\ Generated /\ Len(items) = 3
    /\ items[1].processingStatus = "FAILED" /\ items[1].errorMessage = Unset
    /\ items[2].processingStatus = "COMPLETED"
    /\ Len(report[1].errors) = 1 /\ report[1].errors[1].fileName = items[3].fileName

\* C15: when a step of a Report Generator invocation has failed, the
\* invocation writes no artifact and publishes no summary any more, publishes
\* nothing but the error notification, and ends as a failed invocation: its
\* handler raises instead of returning a response.
C15_FailureEndsInvocationAsFailed ==
    [][ rpc = "except" =>
          /\ reportsBucket' = reportsBucket
          /\ sns' = sns \/ sns' = Append(sns, [kind |-> "error"])
          /\ rpc' = "idle" => rresponse' = Some([raised |-> TRUE]) ]_vars

\* The notifications published that are report summaries.
Summaries == { sns[j] : j \in { k \in 1..Len(sns) : sns[k].kind = "summary" } }

\* C16, the states: the artifacts are written after the scan has ended, the
\* HTML one after the JSON one, the publish comes after both; the links of a
\* summary published are the keys of two artifacts of REPORTS_BUCKET that
\* differ in nothing but the suffix, json and html.
C16_ArtifactsBeforeNotification ==
    /\ rpc \in {"save_json", "save_html", "notify"} => scans >= 1 /\ lastKey = None
    /\ rpc \in {"save_html", "notify"} => report_key(window[1].end_time) \in reportsBucket
    /\ rpc = "notify" => html_key(report_key(window[1].end_time)) \in reportsBucket
    /\ \A n \in Summaries :
         /\ n.links[1] \in reportsBucket /\ n.links[2] \in reportsBucket
         /\ n.links[1].ext = "json" /\ n.links[2].ext = "html"
         /\ [n.links[2] EXCEPT !.ext = "json"] = n.links[1]

\* C16, the steps: a step puts at most one artifact, a JSON one only after the
\* scan has ended, an HTML one only when its JSON twin is there; no scan is
\* made once an artifact of the invocation is written; a summary is published
\* only when both artifacts it links to are there already.
C16_Step ==
    /\ Cardinality(reportsBucket' \ reportsBucket) <= 1
    /\ \A key \in reportsBucket' \ reportsBucket :
         /\ scans >= 1 /\ lastKey = None
         /\ key.ext = "json" => rpc = "save_json"
         /\ key.ext = "html" => [key EXCEPT !.ext = "json"] \in reportsBucket
    /\ scans' > scans => report_key(window[1].end_time) \notin reportsBucket
    /\ Len(sns') > Len(sns) /\ sns'[Len(sns')].kind = "summary" =>
         /\ sns'[Len(sns')].links[1] \in reportsBucket
         /\ sns'[Len(sns')].links[2] \in reportsBucket

\* C16: in every Report Generator invocation the steps come in the order
\* scan, JSON artifact, HTML artifact, publish, and the summary links to the
\* two artifacts, whose keys differ only in the suffix.
C16_ScanThenArtifactsThenPublish == [] C16_ArtifactsBeforeNotification /\ [][C16_Step]_vars

\* C16 witness: an invocation has ended after two scans, both artifacts are in
\* REPORTS_BUCKET and the summary that links to them is published.
C16_Witness ==
    /\ rpc = "idle" /\ runs = 1 /\ rresponse = Some([statusCode |-> 200])
    /\ Cardinality(reportsBucket) = 2
    /\ Len(sns) = 1 /\ sns[1].kind = "summary"
    /\ sns[1].links[1] \in reportsBucket /\ sns[1].links[2] \in reportsBucket
    /\ sns[1].summary.total_files_processed = 2

\* The lines of the input that are not blank, in input order.
DataRows(content) == SelectSeq(content.rows, LAMBDA row : Len(row) > 0)

\* C17: for an input of a header and N data rows, process_csv_data returns N
\* records, the k-th made from the k-th data row: its fields are the columns
\* of the header under their trimmed names, each field of the row trimmed,
\* plus exactly the two fields processed_at and row_id; the summary counts
\* total_records = N, valid_records = N and invalid_records = 0.
C17_EveryRowBecomesARecord ==
    processed_data # None =>
      LET content == csv_content[1]
          out == processed_data[1]
          rows == DataRows(content)
          N == Len(rows)
      IN /\ out.summary = [total_records |-> N, valid_records |-> N, invalid_records |-> 0]
         /\ Len(out.records) = N
         /\ \A k \in 1..N :
              /\ Cardinality(DOMAIN out.records[k]) = Len(content.header) + 2
              /\ {"processed_at", "row_id"} \subseteq DOMAIN out.records[k]
              /\ \A j \in 1..Len(content.header) :
                   /\ strip(content.header[j]) \in DOMAIN out.records[k]
                   /\ j <= Len(rows[k]) =>
                        out.records[k][strip(content.header[j])] = Some(strip(rows[k][j]))

\* The event invocation w is processing failed while its fields were read,
\* before a file id was assigned.
FailedUnassigned(w) == "extract" \in failedSteps[w]

\* C18, the states: such an event is in the exception handler or has returned
\* from it, never out of process_s3_event by a raise; its file id is still
\* unassigned and no item was written for it; when it has returned, it has
\* returned False and its FAILED write has failed and was swallowed.
C18_NoRecordWritten ==
    \A w \in Workers :
      FailedUnassigned(w) =>
        /\ pc[w] \in {"except", "tally"}
        /\ cur[w].file_id = Unset
        /\ \A i \in Ids : Proc(w) \notin writers[i]
        /\ Returned(w) => result[w] = Some(FALSE) /\ "failed_write" \in failedSteps[w]

\* C18, the steps: the exception handler of such an event returns False and
\* leaves the table as it is, and the tally that follows adds 1 to failed and
\* nothing to successful.
C18_Step ==
    \A w \in Workers :
      FailedUnassigned(w) /\ pc'[w] # pc[w] =>
        /\ table' = table
        /\ pc[w] = "except" => pc'[w] = "tally" /\ result'[w] = Some(FALSE)
        /\ pc[w] = "tally" => /\ failed'[w] = failed[w] + 1
                              /\ successful'[w] = successful[w]
                              /\ ~FailedUnassigned(w)'

\* C18: an event that fails before its file id is assigned makes
\* process_s3_event return False without raising, is counted as failed once
\* and leaves no item in the table.
C18_UnassignedIdLeavesNoRecord == [] C18_NoRecordWritten /\ [][C18_Step]_vars

\* C18 witness: an invocation has ended whose only event lacked a field; it
\* is counted as failed once, no file id was ever drawn and the table is
\* empty.
C18_Witness ==
    \E w \in Workers :
      /\ pc[w] = "done" /\ embedded[w] = 1 /\ malformed[w] = 0
      /\ response[w] = Some([statusCode |-> 200, successful |-> 0, failed |-> 1])
      /\ nextId = 1 /\ DOMAIN table = {}
      /\ \A v \in Workers \ {w} : pc[v] = "done" /\ embedded[v] = 0

\* The event processing of invocation w that has returned left a COMPLETED
\* item.
LeftCompleted(w) ==
    \E i \in DOMAIN table : Proc(w) \in writers[i] /\ table[i].processingStatus = "COMPLETED"

\* C19, the states: a process_s3_event that has returned has returned True
\* exactly if it left its record COMPLETED; between events and at the end of
\* an invocation its successful count is the number of COMPLETED records it
\* wrote.
C19_SuccessMeansCompleted ==
    \A w \in Workers :
      /\ Returned(w) => (result[w] = Some(TRUE) <=> LeftCompleted(w))
      /\ pc[w] \in {"loop", "call", "done"} => successful[w] = Cardinality(CompletedBy(w))
      /\ pc[w] = "done" => response[w][1].successful = Cardinality(CompletedBy(w))

\* C19, the steps: the tally of an event that left no COMPLETED record adds to
\* failed, that of one that left one adds to successful; and no step changes
\* the record of an event whose processing has returned.
C19_Step ==
    /\ \A w \in Workers :
         Returned(w) /\ ~Returned(w)' =>
           /\ failed'[w] = failed[w] + 1 <=> ~LeftCompleted(w)
           /\ successful'[w] = successful[w] + 1 <=> LeftCompleted(w)
    /\ \A i \in DOMAIN table :
         (\A w \in Workers : ~(Running(w) /\ cur[w].file_id = Some(i))) => table'[i] = table[i]

\* C19: success is reported exactly for the events whose COMPLETED write
\* succeeded: the successful count of an invocation is the number of records
\* it left COMPLETED and no event counted as failed has a COMPLETED record.
C19_SuccessfulCountIsCompletedRecords == [] C19_SuccessMeansCompleted /\ [][C19_Step]_vars

\* C19 witness: after an event of the invocation was counted as successful,
\* the COMPLETED write of its next event has raised: that event has returned
\* False and its record is FAILED.
C19_Witness ==
    \E w \in Workers :
      /\ Returned(w) /\ "completed_write" \in failedSteps[w] /\ result[w] = Some(FALSE)
      /\ StatusOf(table, cur[w].file_id[1]) = "FAILED"
      /\ successful[w] = 1 /\ Cardinality(CompletedBy(w)) = 1

\* C20: for every COMPLETED item, PROCESSED_BUCKET holds under the item's
\* processedKey the artifact made from the item's own source object, with
\* recordCount rows.
C20_OutputLocationHoldsOwnArtifact ==
    \A i \in DOMAIN table :
      table[i].processingStatus = "COMPLETED" =>
        /\ table[i].processedKey[1] \in DOMAIN processed
        /\ processed[table[i].processedKey[1]].source = table[i].fileName
        /\ processed[table[i].processedKey[1]].rows = table[i].recordCount[1]

====
